---- MODULE Spec2Model ----
(***************************************************************************)
(* oxitodo: the application state machine of src/app.rs (App), the record  *)
(* type of src/todo.rs (TodoItem), the event dispatch of src/events.rs and *)
(* the main loop of src/main.rs.                                           *)
(*                                                                         *)
(* Strings are sequences of one-character strings, so that str::trim and   *)
(* the input buffer's cursor editing are computed, not assumed.            *)
(* Option<usize> is a sequence: <<>> is None, <<i>> is Some(i); indices    *)
(* are 0-based as in the code, so item i of the Vec is todos[i + 1].       *)
(***************************************************************************)
EXTENDS Integers, Sequences, FiniteSets, TLC

\* ---------------------------------------------------------------- bounds
\* The user never grows the list beyond MaxTodos items.
MaxTodos == 3
\* No id above MaxId is assigned or loaded (usize is not exhausted).
MaxId == 3
\* At most MaxSaveFailures calls of fs::write fail over the whole history.
MaxSaveFailures == 1
\* The program is started at most MaxSessions times.
MaxSessions == 2

VARIABLES
    todos,          \* App.todos: Vec<TodoItem>
    list_state,     \* App.list_state.selected(): Option<usize>
    mode,           \* App.mode: AppMode
    input,          \* App.input: tui_input::Input (value, cursor)
    next_id,        \* App.next_id
    should_quit,    \* App.should_quit
    disk,           \* what is stored at App.data_file
    pc,             \* where main is: "start", "running", "exited", "failed",
                    \* "no_terminal", "crashed"
    terminal,       \* "initial", "raw" (after setup_terminal), "restored"
    saves,          \* history: save_todos calls made by the last handled event
    lastOp,         \* history: the match arm the last handled event took
    everIds,        \* history: every id an item has held, over all sessions
    sessionIds,     \* history: every id loaded or created in this session
    saveFailures,   \* history: number of failed save_todos calls so far
    sessions        \* history: number of times App::new has run

vars == <<todos, list_state, mode, input, next_id, should_quit, disk, pc,
          terminal, saves, lastOp, everIds, sessionIds, saveFailures, sessions>>

\* ------------------------------------------------------------ Option<usize>
None == <<>>
Some(i) == <<i>>

\* ------------------------------------------------------------- src/todo.rs
TodoItem_new(id, text) == [id |-> id, text |-> text, completed |-> FALSE]

\* The flag is set instead of flipped.
toggle_completion_set(t) == [t EXCEPT !.completed = TRUE]

toggle_completion(t) == [t EXCEPT !.completed = ~t.completed]

is_completed(t) == t.completed

\* ------------------------------------------------------------- str::trim
RECURSIVE trim_start(_)
trim_start(s) ==
    IF s = <<>> THEN s
    ELSE IF Head(s) = " " THEN trim_start(Tail(s)) ELSE s

RECURSIVE trim_end(_)
trim_end(s) ==
    IF s = <<>> THEN s
    ELSE IF s[Len(s)] = " " THEN trim_end(SubSeq(s, 1, Len(s) - 1)) ELSE s

trim(s) == trim_end(trim_start(s))

\* ------------------------------------------------- the data file (serde_json)
\* A file is absent, or holds a document: a JSON array of objects, each the
\* triple of its "id", "text" and "completed" values, or text that is not
\* such an array.
Absent == [exists |-> FALSE, valid |-> FALSE, objs |-> <<>>]
Malformed == [exists |-> TRUE, valid |-> FALSE, objs |-> <<>>]
Document(objs) == [exists |-> TRUE, valid |-> TRUE, objs |-> objs]

to_string_pretty(ts) ==
    [i \in 1..Len(ts) |-> <<ts[i].id, ts[i].text, ts[i].completed>>]

from_str(objs) ==
    [i \in 1..Len(objs) |->
        [id |-> objs[i][1], text |-> objs[i][2], completed |-> objs[i][3]]]

\* A file that does not parse is taken for an empty list.
load_todos_lenient(f) ==
    IF f.exists /\ f.valid
    THEN [ok |-> TRUE, todos |-> from_str(f.objs)]
    ELSE [ok |-> TRUE, todos |-> <<>>]

\* Result<Vec<TodoItem>>
load_todos(f) ==
    IF f.exists
    THEN IF f.valid
         THEN [ok |-> TRUE, todos |-> from_str(f.objs)]
         ELSE [ok |-> FALSE, todos |-> <<>>]
    ELSE [ok |-> TRUE, todos |-> <<>>]

\* What fs::write can do to the file: write it whole ("ok"), fail before
\* touching it ("fail"), or fail after truncating it ("partial").
IoOutcomes == {"ok", "fail", "partial"}

\* A file that is not a valid document is not written over.
save_todos_keeps_invalid(a, io) ==
    [a EXCEPT !.saves = @ + 1,
              !.disk = CASE io = "ok" /\ (@.valid \/ ~@.exists) ->
                              Document(to_string_pretty(a.todos))
                         [] io = "ok" -> @
                         [] io = "fail" -> @
                         [] OTHER -> Malformed]

\* The error of a failed write is propagated and ends the session.
save_todos_fatal(a, io) ==
    [a EXCEPT !.saves = @ + 1,
              !.should_quit = IF io = "ok" THEN @ ELSE TRUE,
              !.disk = CASE io = "ok" -> Document(to_string_pretty(a.todos))
                         [] io = "fail" -> @
                         [] OTHER -> Malformed]

\* save_todos on the record a; the Result is discarded by every caller.
save_todos(a, io) ==
    [a EXCEPT !.saves = @ + 1,
              !.disk = CASE io = "ok" -> Document(to_string_pretty(a.todos))
                         [] io = "fail" -> @
                         [] OTHER -> Malformed]

\* ---------------------------------------------------------------- App::new
SetMax(S) == CHOOSE m \in S : \A x \in S : x <= m

Ids(ts) == {ts[i].id : i \in 1..Len(ts)}

\* The last item's id is taken for the largest.
initial_next_id_from_last(ts) ==
    (IF ts = <<>> THEN 0 ELSE ts[Len(ts)].id) + 1

\* todos.iter().map(|t| t.id).max().unwrap_or(0) + 1
initial_next_id(ts) == (IF ts = <<>> THEN 0 ELSE SetMax(Ids(ts))) + 1

initial_selection(ts) == IF ts # <<>> THEN Some(0) ELSE None

Input_default == [value |-> <<>>, cursor |-> 0]

App_new(ts) ==
    [todos |-> ts, list_state |-> initial_selection(ts), mode |-> "Normal",
     input |-> Input_default, next_id |-> initial_next_id(ts),
     should_quit |-> FALSE]

\* ------------------------------------------------------------ list operations
\* The 0-based index is used as a 1-based one.
Vec_remove_off_by_one(v, i) == SubSeq(v, 1, i - 1) \o SubSeq(v, i + 1, Len(v))

Vec_remove(v, i) == SubSeq(v, 1, i) \o SubSeq(v, i + 2, Len(v))

\* The id is the new length of the list instead of next_id.
add_todo_id_by_len(a, text, io) ==
    IF trim(text) # <<>>
    THEN LET pushed == Append(a.todos,
                              TodoItem_new(Len(a.todos) + 1, trim(text)))
         IN save_todos([a EXCEPT !.todos = pushed,
                                 !.next_id = @ + 1,
                                 !.list_state = Some(Len(pushed) - 1)], io)
    ELSE a

\* The text is tested for emptiness without being trimmed.
add_todo_untrimmed_test(a, text, io) ==
    IF text # <<>>
    THEN LET pushed == Append(a.todos, TodoItem_new(a.next_id, trim(text)))
         IN save_todos([a EXCEPT !.todos = pushed,
                                 !.next_id = @ + 1,
                                 !.list_state = Some(Len(pushed) - 1)], io)
    ELSE a

\* The text is stored as typed, blanks included.
add_todo_keeps_blanks(a, text, io) ==
    IF trim(text) # <<>>
    THEN LET pushed == Append(a.todos, TodoItem_new(a.next_id, text))
         IN save_todos([a EXCEPT !.todos = pushed,
                                 !.next_id = @ + 1,
                                 !.list_state = Some(Len(pushed) - 1)], io)
    ELSE a

add_todo(a, text, io) ==
    IF trim(text) # <<>>
    THEN LET pushed == Append(a.todos, TodoItem_new(a.next_id, trim(text)))
         IN save_todos([a EXCEPT !.todos = pushed,
                                 !.next_id = @ + 1,
                                 !.list_state = Some(Len(pushed) - 1)], io)
    ELSE a

\* The save after the toggle is left out.
toggle_current_todo_unsaved(a, io) ==
    IF a.list_state # None /\ a.list_state[1] < Len(a.todos)
    THEN [a EXCEPT !.todos[a.list_state[1] + 1] = toggle_completion(@)]
    ELSE a

\* The first item is toggled instead of the selected one.
toggle_current_todo_first(a, io) ==
    IF a.list_state # None /\ a.list_state[1] < Len(a.todos)
    THEN save_todos([a EXCEPT !.todos[1] = toggle_completion(@)], io)
    ELSE a

toggle_current_todo(a, io) ==
    IF a.list_state # None /\ a.list_state[1] < Len(a.todos)
    THEN save_todos([a EXCEPT !.todos[a.list_state[1] + 1] =
                                  toggle_completion(@)], io)
    ELSE a

\* The selection is not clamped to the new last index.
adjust_selection_unclamped(selected, rest) ==
    IF rest = <<>> THEN None ELSE Some(selected)

\* The selection after the element at `selected` was removed, leaving `rest`.
adjust_selection(selected, rest) ==
    IF rest = <<>> THEN None
    ELSE IF selected >= Len(rest) THEN Some(Len(rest) - 1)
    ELSE Some(selected)

\* A failed save is tried a second time.
delete_current_todo_retry(a, io) ==
    IF a.list_state # None /\ a.list_state[1] < Len(a.todos)
    THEN LET selected == a.list_state[1]
             rest == Vec_remove(a.todos, selected)
             saved == save_todos([a EXCEPT !.todos = rest,
                                     !.list_state = adjust_selection(selected, rest)],
                                 io)
         IN IF io = "ok" THEN saved ELSE save_todos(saved, io)
    ELSE a

delete_current_todo(a, io) ==
    IF a.list_state # None /\ a.list_state[1] < Len(a.todos)
    THEN LET selected == a.list_state[1]
             rest == Vec_remove(a.todos, selected)
         IN save_todos([a EXCEPT !.todos = rest,
                                 !.list_state = adjust_selection(selected, rest)],
                       io)
    ELSE a

\* The selection stops at the last index instead of wrapping.
next_item_clamped(a) ==
    IF a.todos = <<>> THEN a
    ELSE [a EXCEPT !.list_state =
            IF @ # None
            THEN (IF @[1] >= Len(a.todos) - 1
                  THEN Some(Len(a.todos) - 1) ELSE Some(@[1] + 1))
            ELSE Some(0)]

next_item(a) ==
    IF a.todos = <<>> THEN a
    ELSE [a EXCEPT !.list_state =
            IF @ # None
            THEN (IF @[1] >= Len(a.todos) - 1 THEN Some(0) ELSE Some(@[1] + 1))
            ELSE Some(0)]

previous_item(a) ==
    IF a.todos = <<>> THEN a
    ELSE [a EXCEPT !.list_state =
            IF @ # None
            THEN (IF @[1] = 0 THEN Some(Len(a.todos) - 1) ELSE Some(@[1] - 1))
            ELSE Some(0)]

completed_count(a) == Cardinality({i \in 1..Len(a.todos) : is_completed(a.todos[i])})

total_count(a) == Len(a.todos)

\* ------------------------------------------------------------ tui_input::Input
Input_reset == Input_default

\* Input::handle_event for the keys the Insert arm forwards to it.
Input_handle_event(inp, code) ==
    CASE code.t = "Char" ->
            [value |-> SubSeq(inp.value, 1, inp.cursor) \o <<code.c>>
                       \o SubSeq(inp.value, inp.cursor + 1, Len(inp.value)),
             cursor |-> inp.cursor + 1]
      [] code.t = "Backspace" ->
            IF inp.cursor = 0 THEN inp
            ELSE [value |-> SubSeq(inp.value, 1, inp.cursor - 1)
                            \o SubSeq(inp.value, inp.cursor + 1, Len(inp.value)),
                  cursor |-> inp.cursor - 1]
      [] OTHER -> inp

\* ------------------------------------------------------------------ key events
Key(t, c) == [t |-> t, c |-> c]
Char(c) == Key("Char", c)

\* The characters the Normal arm names, and the keys without a character.
CommandChars == {"q", "i", "?", " ", "d", "k", "j"}
\* The characters typed while composing an item: a letter and the blank.
TypedChars == {"q", " "}
\* The buffer contents the user composes: nothing, blanks only, and the letter
\* with a blank before or after it.
Typeable ==
    {<<>>, <<" ">>, <<"q">>, <<" ", " ">>, <<" ", "q">>, <<"q", " ">>}
PlainKeys == {"Up", "Down", "Esc", "Enter", "Backspace", "Tab"}
KeyCodes == {Char(c) : c \in CommandChars} \cup {Key(t, "") : t \in PlainKeys}
KeyKinds == {"Press", "Release"}

handle_normal(a, code, io) ==
    CASE code = Char("q") -> [a EXCEPT !.should_quit = TRUE, !.op = "quit"]
      [] code = Char("i") -> [a EXCEPT !.mode = "Insert", !.op = "insert"]
      [] code = Char("?") -> [a EXCEPT !.mode = "Help", !.op = "help"]
      [] code = Char(" ") -> [toggle_current_todo(a, io) EXCEPT !.op = "toggle"]
      [] code = Char("d") -> [delete_current_todo(a, io) EXCEPT !.op = "delete"]
      [] code \in {Key("Up", ""), Char("k")} ->
            [previous_item(a) EXCEPT !.op = "previous"]
      [] code \in {Key("Down", ""), Char("j")} ->
            [next_item(a) EXCEPT !.op = "next"]
      [] OTHER -> [a EXCEPT !.op = "ignored"]

\* The quit key is honoured while composing an item.
handle_insert_q_quits(a, code, io) ==
    CASE code = Key("Esc", "") ->
            [a EXCEPT !.mode = "Normal", !.input = Input_reset, !.op = "escape"]
      [] code = Key("Enter", "") ->
            [add_todo(a, a.input.value, io) EXCEPT
                !.input = Input_reset, !.mode = "Normal", !.op = "enter"]
      [] code = Char("q") -> [a EXCEPT !.should_quit = TRUE, !.op = "quit"]
      [] OTHER ->
            [a EXCEPT !.input = Input_handle_event(@, code), !.op = "forward"]

\* Escape leaves Insert mode without resetting the buffer.
handle_insert_esc_keeps_input(a, code, io) ==
    CASE code = Key("Esc", "") -> [a EXCEPT !.mode = "Normal", !.op = "escape"]
      [] code = Key("Enter", "") ->
            [add_todo(a, a.input.value, io) EXCEPT
                !.input = Input_reset, !.mode = "Normal", !.op = "enter"]
      [] OTHER ->
            [a EXCEPT !.input = Input_handle_event(@, code), !.op = "forward"]

handle_insert(a, code, io) ==
    CASE code = Key("Esc", "") ->
            [a EXCEPT !.mode = "Normal", !.input = Input_reset, !.op = "escape"]
      [] code = Key("Enter", "") ->
            [add_todo(a, a.input.value, io) EXCEPT
                !.input = Input_reset, !.mode = "Normal", !.op = "enter"]
      [] OTHER ->
            [a EXCEPT !.input = Input_handle_event(@, code), !.op = "forward"]

\* The quit key is honoured in Help mode too.
handle_help_q_quits(a, code) ==
    CASE code \in {Key("Esc", ""), Char("?")} ->
            [a EXCEPT !.mode = "Normal", !.op = "close_help"]
      [] code = Char("q") -> [a EXCEPT !.should_quit = TRUE, !.op = "quit"]
      [] OTHER -> [a EXCEPT !.op = "ignored"]

handle_help(a, code) ==
    CASE code \in {Key("Esc", ""), Char("?")} ->
            [a EXCEPT !.mode = "Normal", !.op = "close_help"]
      [] OTHER -> [a EXCEPT !.op = "ignored"]

\* The kind of the event is not looked at.
handle_key_event_any_kind(a0, code, kind, io) ==
    LET a == [a0 EXCEPT !.saves = 0]
    IN CASE a.mode = "Normal" -> handle_normal(a, code, io)
         [] a.mode = "Insert" -> handle_insert(a, code, io)
         [] OTHER -> handle_help(a, code)

\* App::handle_key_event; `io` is what the file system does if a save is made.
handle_key_event(a0, code, kind, io) ==
    LET a == [a0 EXCEPT !.saves = 0]
    IN IF kind # "Press" THEN [a EXCEPT !.op = "non_press"]
       ELSE CASE a.mode = "Normal" -> handle_normal(a, code, io)
              [] a.mode = "Insert" -> handle_insert(a, code, io)
              [] OTHER -> handle_help(a, code)

\* -------------------------------------------------------------- the state
\* The App, the file and the event history as one record.
Now ==
    [todos |-> todos, list_state |-> list_state, mode |-> mode, input |-> input,
     next_id |-> next_id, should_quit |-> should_quit, disk |-> disk,
     saves |-> saves, op |-> lastOp]

\* Files found at the first start: none, a malformed one, and a list whose ids
\* are distinct and not in order.
InitFiles ==
    {Absent, Malformed,
     Document(<< <<2, <<"q">>, TRUE>>, <<1, <<"q">>, FALSE>> >>)}

Init ==
    /\ disk \in InitFiles
    /\ pc = "start"
    /\ terminal = "initial"
    /\ todos = <<>>
    /\ list_state = None
    /\ mode = "Normal"
    /\ input = Input_default
    /\ next_id = 1
    /\ should_quit = FALSE
    /\ saves = 0
    /\ lastOp = "none"
    /\ everIds = {}
    /\ sessionIds = {}
    /\ saveFailures = 0
    /\ sessions = 0

\* main: setup_terminal()? has entered raw mode and the alternate screen.
SetupTerminal ==
    /\ pc = "start"
    /\ terminal = "initial"
    /\ terminal' = "raw"
    /\ UNCHANGED <<todos, list_state, mode, input, next_id, should_quit, disk,
                   pc, saves, lastOp, everIds, sessionIds, saveFailures,
                   sessions>>

\* main: setup_terminal()? fails, in enable_raw_mode or after it; main returns.
SetupFails ==
    /\ pc = "start"
    /\ terminal = "initial"
    /\ pc' = "no_terminal"
    /\ terminal' \in {"initial", "raw"}
    /\ UNCHANGED <<todos, list_state, mode, input, next_id, should_quit, disk,
                   saves, lastOp, everIds, sessionIds, saveFailures, sessions>>

\* main: App::new()? loads the file; a malformed file makes main return there.
Startup ==
    /\ pc = "start"
    /\ terminal = "raw"
    /\ LET loaded == load_todos(disk)
           app == App_new(loaded.todos)
       IN /\ pc' = IF loaded.ok THEN "running" ELSE "failed"
          /\ todos' = app.todos
          /\ list_state' = app.list_state
          /\ mode' = app.mode
          /\ input' = app.input
          /\ next_id' = app.next_id
          /\ should_quit' = app.should_quit
          /\ sessionIds' = Ids(app.todos)
          /\ everIds' = everIds \cup Ids(app.todos)
    /\ saves' = 0
    /\ lastOp' = "none"
    /\ sessions' = sessions + 1
    /\ UNCHANGED <<disk, saveFailures, terminal>>

\* The user's input stays within the bounds.
WithinBounds(r) ==
    /\ Len(r.todos) <= MaxTodos
    /\ r.next_id <= MaxId + 1
    /\ r.input.value \in Typeable

\* One iteration of run_app's loop in which a key event arrives: the event is
\* handled, then should_quit is checked. The draw that opens the iteration
\* reads the App and is left out; an iteration without a key event (poll
\* timeout, mouse, resize, focus, paste) changes nothing. When the loop
\* breaks, run_app returns Ok and main goes on to restore_terminal.
Iteration(code, kind, io) ==
    /\ pc = "running"
    /\ \E r \in {handle_key_event(Now, code, kind, io)} :
          /\ WithinBounds(r)
          /\ (io # "ok") => (r.saves > 0 /\ saveFailures < MaxSaveFailures)
          /\ todos' = r.todos
          /\ list_state' = r.list_state
          /\ mode' = r.mode
          /\ input' = r.input
          /\ next_id' = r.next_id
          /\ should_quit' = r.should_quit
          /\ disk' = r.disk
          /\ saves' = r.saves
          /\ lastOp' = r.op
          /\ everIds' = everIds \cup Ids(r.todos)
          /\ sessionIds' = sessionIds \cup Ids(r.todos)
          /\ saveFailures' = IF r.saves > 0 /\ io # "ok"
                             THEN saveFailures + 1 ELSE saveFailures
          /\ pc' = IF r.should_quit THEN "exited" ELSE "running"
          /\ terminal' = IF r.should_quit THEN "restored" ELSE terminal
    /\ UNCHANGED sessions

PressNormal ==
    /\ mode = "Normal"
    /\ \E code \in KeyCodes, io \in IoOutcomes : Iteration(code, "Press", io)

PressInsert ==
    /\ mode = "Insert"
    /\ \E code \in {Char(c) : c \in TypedChars} \cup {Key(t, "") : t \in PlainKeys},
          io \in IoOutcomes : Iteration(code, "Press", io)

PressHelp ==
    /\ mode = "Help"
    /\ \E code \in KeyCodes : Iteration(code, "Press", "ok")

NonPress ==
    /\ pc = "running"
    /\ \E code \in KeyCodes : Iteration(code, "Release", "ok")

\* An iteration of run_app's loop in which terminal.draw or the event poll
\* fails: run_app returns the error, main restores the terminal and returns it.
LoopError ==
    /\ pc = "running"
    /\ pc' = "crashed"
    /\ terminal' = "restored"
    /\ saves' = 0
    /\ lastOp' = "io_error"
    /\ UNCHANGED <<todos, list_state, mode, input, next_id, should_quit, disk,
                   everIds, sessionIds, saveFailures, sessions>>

\* The program is run again after it ended; the file is what the last run left.
Restart ==
    /\ pc \in {"exited", "failed"}
    /\ sessions < MaxSessions
    /\ pc' = "start"
    /\ terminal' = "initial"
    /\ todos' = <<>>
    /\ list_state' = None
    /\ mode' = "Normal"
    /\ input' = Input_default
    /\ next_id' = 1
    /\ should_quit' = FALSE
    /\ saves' = 0
    /\ lastOp' = "none"
    /\ sessionIds' = {}
    /\ UNCHANGED <<disk, everIds, saveFailures, sessions>>

\* One run of the program.
Next ==
    SetupTerminal \/ Startup \/ PressNormal \/ PressInsert \/ PressHelp
    \/ NonPress

Spec == Init /\ [][Next]_vars

\* Runs of the program one after another on the same data file.
NextRuns == Next \/ Restart

SpecRuns == Init /\ [][NextRuns]_vars

\* One run of the program in which the terminal calls may fail as well.
NextMain == Next \/ SetupFails \/ LoopError

SpecMain == Init /\ [][NextMain]_vars

\* ====================================================================== claims
InSession == pc \in {"running", "exited"}

\* The steps of a session: one handled key event each.
AddStep ==
    pc = "running" /\ mode = "Insert" /\ lastOp' = "enter"
    /\ trim(input.value) # <<>>
BlankAddStep ==
    pc = "running" /\ mode = "Insert" /\ lastOp' = "enter"
    /\ trim(input.value) = <<>>
DeleteStep == pc = "running" /\ mode = "Normal" /\ lastOp' = "delete"
ToggleStep == pc = "running" /\ mode = "Normal" /\ lastOp' = "toggle"

IdSeq(ts) == [i \in 1..Len(ts) |-> ts[i].id]
Last(ts) == ts[Len(ts)]

\* ---------------------------------------------------------------------- C1
\* C1: in every state of a session, a non-empty list has a selection Some(i)
\* with 0 <= i < number of todos, and an empty list has the selection None.
C1_SelectionInvariant ==
    InSession =>
        IF todos = <<>>
        THEN list_state = None
        ELSE \E i \in 0..(Len(todos) - 1) : list_state = Some(i)

\* The last of three items was deleted and the selection moved back onto the
\* new last item.
C1_Witness ==
    /\ pc = "running" /\ lastOp = "delete"
    /\ Len(todos) = 2 /\ next_id = 4 /\ 3 \notin Ids(todos)
    /\ list_state = Some(1)

\* ---------------------------------------------------------------------- C2
\* C2: while no save has failed, between two key events the data file holds
\* exactly the in-memory list: same items, same order, same id, text and
\* completed.
C2_WriteThrough ==
    (InSession /\ saveFailures = 0) =>
        load_todos(disk) = [ok |-> TRUE, todos |-> todos]

\* A toggle has just been saved, and the file had to change for it.
C2_Witness ==
    /\ pc = "running" /\ saveFailures = 0
    /\ lastOp = "toggle" /\ saves = 1
    /\ Len(todos) = 2 /\ todos[2].completed /\ ~todos[1].completed
    /\ disk.exists

\* ---------------------------------------------------------------------- C3
\* C3: over any runs of the program on the same data file, an item created by
\* add never gets an id that some item, present or deleted, has held before,
\* and the ids in the list are pairwise distinct.
C3_IdsNeverReused ==
    [][/\ AddStep => Last(todos').id \notin everIds
       /\ InSession' => Cardinality(Ids(todos')) = Len(todos')]_vars

\* ---------------------------------------------------------------------- C4
\* C4 as stated: add with non-blank text grows the list by one item, whose id
\* is the largest id in the list just before the add plus 1 (1 for an empty
\* list), appended last, not completed, and selected.
C4_AddIdFromListMax ==
    [][AddStep =>
        /\ Len(todos') = Len(todos) + 1
        /\ SubSeq(todos', 1, Len(todos)) = todos
        /\ Last(todos').id =
              (IF todos = <<>> THEN 0 ELSE SetMax(Ids(todos))) + 1
        /\ Last(todos').completed = FALSE
        /\ list_state' = Some(Len(todos') - 1)]_vars

\* C4 as amended: the id is next_id, which is the largest id loaded or created
\* so far in the session plus 1 (1 if there was none).
C4_AddIdFromNextId ==
    [][AddStep =>
        /\ Len(todos') = Len(todos) + 1
        /\ SubSeq(todos', 1, Len(todos)) = todos
        /\ Last(todos').id = next_id
        /\ Last(todos').id =
              (IF sessionIds = {} THEN 0 ELSE SetMax(sessionIds)) + 1
        /\ Last(todos').text = trim(input.value)
        /\ Last(todos').completed = FALSE
        /\ list_state' = Some(Len(todos') - 1)]_vars

\* An item was added after the item with the largest id had been deleted.
C4_Witness ==
    /\ pc = "running" /\ lastOp = "enter" /\ saves = 1
    /\ Len(todos) = 2 /\ Last(todos).id = 3 /\ 2 \notin Ids(todos)
    /\ list_state = Some(1)

\* ---------------------------------------------------------------------- C5
\* C5: in a session next_id is greater than every id loaded or created in the
\* session, deleted or not, and never decreases.
C5_NextIdAboveAllIds ==
    [][/\ InSession' => \A id \in sessionIds' : id < next_id'
       /\ pc = "running" => next_id' >= next_id]_vars

\* The item with the largest id was deleted and next_id is still above it.
C5_Witness ==
    /\ pc = "running" /\ lastOp = "delete"
    /\ todos # <<>> /\ next_id = 4 /\ 3 \notin Ids(todos) /\ 3 \in sessionIds

\* ---------------------------------------------------------------------- C6
\* The list l without its element at 0-based index s.
RemoveAt(l, s) == [i \in 1..(Len(l) - 1) |-> IF i <= s THEN l[i] ELSE l[i + 1]]

SelectionAfterDelete(n, s) ==
    IF n = 1 THEN None ELSE IF s = n - 1 THEN Some(n - 2) ELSE Some(s)

\* C6: delete with selection Some(s) on a list of length N removes exactly the
\* element at s and leaves the others as they were and in order; the selection
\* becomes None if N = 1, Some(N-2) if s = N-1, Some(s) otherwise. With no
\* selection, delete changes nothing.
C6_DeleteResult ==
    [][DeleteStep =>
        IF list_state = None
        THEN /\ todos' = todos /\ list_state' = list_state
             /\ next_id' = next_id /\ saves' = 0 /\ disk' = disk
        ELSE /\ todos' = RemoveAt(todos, list_state[1])
             /\ list_state' = SelectionAfterDelete(Len(todos), list_state[1])]_vars

\* The middle one of three items was deleted: the selection stays at 1.
C6_Witness ==
    /\ pc = "running" /\ lastOp = "delete" /\ saves = 1
    /\ Len(todos) = 2 /\ Ids(todos) = {1, 3} /\ list_state = Some(1)

\* ---------------------------------------------------------------------- C7
\* C7: Enter in Insert mode on an empty or all-blank buffer leaves the list,
\* next_id, the selection, the file and the quit flag as they were and makes
\* no save; it only resets the buffer and returns to Normal mode.
C7_BlankAddIsNoOp ==
    [][BlankAddStep =>
        /\ todos' = todos /\ next_id' = next_id /\ list_state' = list_state
        /\ saves' = 0 /\ disk' = disk /\ should_quit' = should_quit
        /\ input' = [value |-> <<>>, cursor |-> 0]
        /\ mode' = "Normal"]_vars

\* Enter was pressed, no save was made, and the list is not empty.
C7_Witness ==
    /\ pc = "running" /\ lastOp = "enter" /\ saves = 0
    /\ mode = "Normal" /\ Len(todos) = 2

\* ---------------------------------------------------------------------- C8
RECURSIVE NextTimes(_, _)
NextTimes(a, n) == IF n = 0 THEN a ELSE NextTimes(next_item(a), n - 1)

RECURSIVE PreviousTimes(_, _)
PreviousTimes(a, n) == IF n = 0 THEN a ELSE PreviousTimes(previous_item(a), n - 1)

\* C8: on a list of length N >= 1 with selection Some(i), next selects
\* (i+1) mod N and previous (i-1+N) mod N, each undoes the other, N calls of
\* either come back to i after visiting every index once, and neither changes
\* anything but the selection; on the empty list both change nothing.
C8_NavigationWraps ==
    InSession =>
        IF todos = <<>>
        THEN next_item(Now) = Now /\ previous_item(Now) = Now
        ELSE LET n == Len(todos)
                 i == list_state[1]
             IN /\ list_state # None
                /\ next_item(Now) = [Now EXCEPT !.list_state = Some((i + 1) % n)]
                /\ previous_item(Now) =
                      [Now EXCEPT !.list_state = Some((i - 1 + n) % n)]
                /\ previous_item(next_item(Now)) = Now
                /\ next_item(previous_item(Now)) = Now
                /\ NextTimes(Now, n) = Now
                /\ PreviousTimes(Now, n) = Now
                /\ {NextTimes(Now, k).list_state[1] : k \in 0..(n - 1)}
                      = 0..(n - 1)
                /\ {PreviousTimes(Now, k).list_state[1] : k \in 0..(n - 1)}
                      = 0..(n - 1)

\* next has just wrapped from the last of three items to the first.
C8_Witness ==
    /\ pc = "running" /\ lastOp = "next"
    /\ Len(todos) = 3 /\ list_state = Some(0)

\* ---------------------------------------------------------------------- C9
\* C9: with a selection, two toggles in a row restore the list and the
\* selection, whatever happens to the two saves, and one toggle does change
\* the selected item's flag.
C9_ToggleInvolution ==
    (InSession /\ list_state # None) =>
        \A io1 \in IoOutcomes, io2 \in IoOutcomes :
            LET once == toggle_current_todo(Now, io1)
                twice == toggle_current_todo(once, io2)
            IN /\ once.todos # todos
               /\ once.todos[list_state[1] + 1].completed
                     = ~todos[list_state[1] + 1].completed
               /\ twice.todos = todos
               /\ twice.list_state = list_state

\* The second of two items has just been toggled back to not completed.
C9_Witness ==
    /\ pc = "running" /\ lastOp = "toggle" /\ saves = 1
    /\ Len(todos) = 2 /\ list_state = Some(1)
    /\ ~todos[2].completed /\ todos[1].completed

\* --------------------------------------------------------------------- C10
\* Whether the ids of `after` are those of `before`, with one appended or one
\* removed at most, in the same order.
SameItemsInOrder(before, after) ==
    \/ IdSeq(after) = IdSeq(before)
    \/ /\ Len(after) = Len(before) + 1
       /\ SubSeq(IdSeq(after), 1, Len(before)) = IdSeq(before)
    \/ \E s \in 0..(Len(before) - 1) : IdSeq(after) = RemoveAt(IdSeq(before), s)

\* C10: in a session no step renumbers or rewrites an item: ids stay in order,
\* the text of an item never changes, and its completed flag changes only when
\* the toggle key is pressed in Normal mode with that item selected. A toggle
\* changes nothing else: not the other items, the order, the selection or
\* next_id.
C10_OnlyToggleChangesItems ==
    [][pc = "running" =>
        /\ SameItemsInOrder(todos, todos')
        /\ \A i \in 1..Len(todos), j \in 1..Len(todos') :
              todos'[j].id = todos[i].id =>
                 /\ todos'[j].text = todos[i].text
                 /\ todos'[j].completed # todos[i].completed =>
                       ToggleStep /\ list_state = Some(i - 1)
        /\ ToggleStep =>
              /\ IdSeq(todos') = IdSeq(todos)
              /\ \A i \in 1..Len(todos) :
                    todos'[i] =
                       IF list_state = Some(i - 1)
                       THEN [todos[i] EXCEPT !.completed = ~@]
                       ELSE todos[i]
              /\ list_state' = list_state
              /\ next_id' = next_id]_vars

\* With two items, down then space: the second is completed, the first not.
C10_Witness ==
    /\ pc = "running" /\ lastOp = "toggle" /\ saves = 1
    /\ Len(todos) = 2 /\ list_state = Some(1)
    /\ todos[2].completed /\ ~todos[1].completed

\* --------------------------------------------------------------------- C11
\* The in-memory part of the record: list, selection, next_id, mode, buffer
\* and quit flag.
Memory(r) ==
    [todos |-> r.todos, list_state |-> r.list_state, next_id |-> r.next_id,
     mode |-> r.mode, input |-> r.input, should_quit |-> r.should_quit]

\* Every key this model presses, in whatever mode.
AllKeyCodes == KeyCodes \cup {Char(c) : c \in TypedChars}

\* C11: whatever key is pressed, the in-memory state after the event is the
\* same whether the save it makes succeeds or fails, and a failed save neither
\* sets the quit flag nor ends the loop.
C11_SaveFailureLeavesMemory ==
    pc = "running" =>
        \A code \in AllKeyCodes, io \in IoOutcomes \ {"ok"} :
            LET failed == handle_key_event(Now, code, "Press", io)
                saved == handle_key_event(Now, code, "Press", "ok")
            IN /\ Memory(failed) = Memory(saved)
               /\ failed.saves = saved.saves
               /\ failed.should_quit => (mode = "Normal" /\ code = Char("q"))

\* The save of a delete has just failed: the session goes on with the item
\* deleted in memory and the file behind.
C11_Witness ==
    /\ pc = "running" /\ ~should_quit
    /\ lastOp = "delete" /\ saves = 1 /\ saveFailures = 1
    /\ Len(todos) = 1
    /\ load_todos(disk) # [ok |-> TRUE, todos |-> todos]

\* --------------------------------------------------------------------- C12
\* C12: a handled key event makes exactly one save when it changed the list
\* (non-blank add, toggle or delete with a selection) and none otherwise; a
\* failed save is not tried again, in that event or a later one.
C12_OneSavePerMutation ==
    [][pc = "running" =>
        LET mutating == \/ AddStep
                        \/ ToggleStep /\ list_state # None
                        \/ DeleteStep /\ list_state # None
        IN /\ saves' = IF mutating THEN 1 ELSE 0
           /\ mutating <=> todos' # todos]_vars

\* After a failed save the list was emptied; a toggle without a selection
\* then makes no save.
C12_Witness ==
    /\ pc = "running" /\ lastOp = "toggle" /\ saves = 0
    /\ todos = <<>> /\ saveFailures = 1

\* --------------------------------------------------------------------- C13
\* C13: in every state and mode, for every key code, an event whose kind is
\* not Press changes neither the list, the selection, next_id, the mode, the
\* buffer, the quit flag nor the file, and makes no save.
C13_NonPressIgnored ==
    pc = "running" =>
        \A code \in AllKeyCodes, kind \in KeyKinds \ {"Press"},
           io \in IoOutcomes :
            handle_key_event(Now, code, kind, io)
               = [Now EXCEPT !.saves = 0, !.op = "non_press"]

\* A key was released in Insert mode with a letter in the buffer.
C13_Witness ==
    /\ pc = "running" /\ lastOp = "non_press"
    /\ mode = "Insert" /\ input.value = <<"q">> /\ Len(todos) = 1

\* --------------------------------------------------------------------- C14
EmptyInput == [value |-> <<>>, cursor |-> 0]

\* C14: whenever the mode is Normal or Help the buffer is empty with cursor 0,
\* so the buffer is empty on every entry into Insert mode.
C14_InputEmptyOutsideInsert ==
    (InSession /\ (mode \in {"Normal", "Help"} \/ lastOp = "insert")) =>
        input = EmptyInput

\* Insert mode was just left by Escape, with a full list.
C14_Witness ==
    /\ pc = "running" /\ lastOp = "escape" /\ mode = "Normal"
    /\ input = EmptyInput /\ Len(todos) = 3

\* --------------------------------------------------------------------- C15
InsertKeyStep == pc = "running" /\ mode = "Normal" /\ lastOp' = "insert"

\* C15 as stated: the insert key opens Insert mode on an empty buffer, and
\* Enter on a buffer t that is not blank ends in Normal mode with an empty
\* buffer and one more item, the last, whose text is t as typed, not completed
\* and selected.
C15_SubmitTextAsTyped ==
    [][/\ InsertKeyStep =>
            mode' = "Insert" /\ input' = EmptyInput /\ todos' = todos
       /\ AddStep =>
            /\ mode' = "Normal" /\ input' = EmptyInput
            /\ Len(todos') = Len(todos) + 1
            /\ Last(todos').text = input.value
            /\ Last(todos').completed = FALSE
            /\ list_state' = Some(Len(todos') - 1)]_vars

\* C15 as amended: the text of the new item is t without its leading and
\* trailing whitespace.
C15_SubmitTextTrimmed ==
    [][/\ InsertKeyStep =>
            mode' = "Insert" /\ input' = EmptyInput /\ todos' = todos
       /\ AddStep =>
            /\ mode' = "Normal" /\ input' = EmptyInput
            /\ Len(todos') = Len(todos) + 1
            /\ Last(todos').text = trim(input.value)
            /\ Last(todos').completed = FALSE
            /\ list_state' = Some(Len(todos') - 1)]_vars

\* The first item of a session that began with the empty list was submitted.
C15_Witness ==
    /\ pc = "running" /\ lastOp = "enter" /\ saves = 1
    /\ mode = "Normal" /\ input = EmptyInput
    /\ sessionIds = {1}
    /\ todos = <<[id |-> 1, text |-> <<"q">>, completed |-> FALSE]>>
    /\ list_state = Some(0)

\* --------------------------------------------------------------------- C16
\* C16: in Help mode a key press changes nothing but the mode, and the mode
\* only for Escape and the help key, which return to Normal; no save is made.
C16_HelpModeInert ==
    (pc = "running" /\ mode = "Help") =>
        \A code \in AllKeyCodes, io \in IoOutcomes :
            LET closing == code \in {Key("Esc", ""), Char("?")}
            IN handle_key_event(Now, code, "Press", io)
                  = [Now EXCEPT !.saves = 0,
                                !.mode = IF closing THEN "Normal" ELSE "Help",
                                !.op = IF closing THEN "close_help" ELSE "ignored"]

\* A key was pressed in Help mode and ignored, with two items in the list.
C16_Witness ==
    /\ pc = "running" /\ mode = "Help" /\ lastOp = "ignored"
    /\ Len(todos) = 2 /\ list_state = Some(1)

\* --------------------------------------------------------------------- C17
Press(a, code) == handle_key_event(a, code, "Press", "ok")

\* Some one or two key presses set the quit flag: q, or Escape and then q.
CanQuit ==
    \/ Press(Now, Char("q")).should_quit
    \/ Press(Press(Now, Key("Esc", "")), Char("q")).should_quit

\* C17: the quit flag is set only by a press of q in Normal mode; once it is
\* set the loop has ended, so the flag is never cleared and no further event
\* is handled; and from every state of the loop some key presses set it.
C17_QuitProtocol ==
    [][/\ (~should_quit /\ should_quit') =>
            (pc = "running" /\ mode = "Normal" /\ lastOp' = "quit")
       /\ should_quit =>
            UNCHANGED <<todos, list_state, mode, input, next_id, should_quit,
                        disk, saves, lastOp>>
       /\ InSession' => (should_quit' <=> pc' = "exited")
       /\ pc' = "running" => CanQuit']_vars

\* q was pressed in Normal mode: the flag is set and the loop has ended.
C17_Witness ==
    /\ pc = "exited" /\ should_quit /\ lastOp = "quit"
    /\ mode = "Normal" /\ Len(todos) = 1

\* --------------------------------------------------------------------- C18
AppNewStep == pc = "start" /\ terminal = "raw"

\* C18: without a data file App::new succeeds with the empty list, no
\* selection and next_id 1, so that the first item added gets id 1; with a
\* malformed file App::new fails, the loop is not entered, no event is handled
\* and the file stays as it is.
C18_StartupLoadOutcomes ==
    [][/\ (AppNewStep /\ ~disk.exists) =>
            /\ pc' = "running" /\ todos' = <<>> /\ list_state' = None
            /\ next_id' = 1
       /\ (AppNewStep /\ disk.exists /\ ~disk.valid) =>
            pc' = "failed" /\ disk' = disk /\ lastOp' = "none"
       /\ (AddStep /\ sessionIds = {}) => Last(todos').id = 1
       /\ pc = "failed" => (disk' = disk /\ lastOp' = lastOp /\ pc' # "running")]_vars

\* App::new has failed on a malformed file, which is still there.
C18_Witness ==
    /\ pc = "failed" /\ disk = Malformed /\ todos = <<>> /\ lastOp = "none"

\* --------------------------------------------------------------------- C19
SaveStep == pc = "running" /\ saves' = 1
SaveFailedStep == SaveStep /\ saveFailures' = saveFailures + 1
\* The write of this step was not cut short after truncating the file.
WholeFileWrite == ~(disk' = Malformed /\ disk # Malformed)

\* C19: a save that succeeds, whatever failed before it, leaves the file equal
\* to the in-memory list; a save that fails leaves the file as it was, for
\* writes that are whole-file.
C19_RecoveryAfterFailedSave ==
    [][/\ (SaveStep /\ ~SaveFailedStep) =>
            /\ disk' = Document(to_string_pretty(todos'))
            /\ load_todos(disk') = [ok |-> TRUE, todos |-> todos']
       /\ (SaveFailedStep /\ WholeFileWrite) => disk' = disk]_vars

\* A save has just succeeded after an earlier one had failed, and the file
\* holds the list again.
C19_Witness ==
    /\ pc = "running" /\ saveFailures = 1 /\ saves = 1
    /\ todos # <<>>
    /\ load_todos(disk) = [ok |-> TRUE, todos |-> todos]

\* --------------------------------------------------------------------- C20
\* C20: whenever main has returned after setup_terminal succeeded, be it
\* after a quit, an error in the loop or a failure of App::new,
\* restore_terminal has been executed.
C20_TerminalRestoredOnExit ==
    pc \in {"exited", "crashed", "failed"} => terminal = "restored"

====
